---- MODULE Spec2Model ----
(***************************************************************************)
(* copy-sync: clipboard synchronisation over websockets.                    *)
(*   client.rs  the peer: change detector (check_clipboard), inbound        *)
(*              handler (handle_message), session (run), reconnect loop     *)
(*              (start), codec (encode, decode, serialize_clipboard_message)*)
(*   server.rs  the relay: handle_connection (registry + broadcast)         *)
(* A peer id doubles as the socket address of its connection at the relay.  *)
(***************************************************************************)
EXTENDS Integers, Sequences, FiniteSets, TLC

(* ------------------------------ bounds --------------------------------- *)
MaxCopies == 1     \* user copies
MaxInject == 2     \* messages the network hands to a peer or to the relay
MaxAttempts == 4   \* connection attempts of a peer
MaxSessions == 1   \* sessions of a peer that run and end
MaxEnds == 2       \* connection endings seen by the relay
MaxClipFail == 1   \* failures of the clipboard primitive on acceptable input
MaxSeq == 2        \* a detector stops ticking once its peer has sent this much

(* --------------------------- program constants ------------------------- *)
RETRY_CONNECT_INTERVAL_IN_SECONDS == 60

Peers == {"A", "B", "C"}

(* ------------------------------ data ----------------------------------- *)
\* RGBA8 pixel buffers of the images the model's users copy.
PixRed == <<255, 0, 0, 255>>
PixTwo == <<0, 255, 0, 255, 0, 0, 255, 255>>

TextContent(s) == [t |-> "Text", s |-> s]
ImageContent(w, h, b) == [t |-> "Image", width |-> w, height |-> h, bytes |-> b]
EmptyContent == [t |-> "Empty"]
NoContent == [t |-> "None"]

ImgRed == ImageContent(1, 1, PixRed)
ImgTwo == ImageContent(2, 1, PixTwo)

\* a 2x2 image of 16 bytes
PixFour == <<255, 0, 0, 255, 0, 255, 0, 255, 0, 0, 255, 255, 9, 9, 9, 255>>
ImgFour == ImageContent(2, 2, PixFour)

RECURSIVE SumSeq(_)
SumSeq(s) == IF s = <<>> THEN 0 ELSE Head(s) + SumSeq(Tail(s))

\* zlib stream: 2 header bytes, the data, the Adler checksum of the data.
ZlibHeader == <<120, 156>>

Adler(bytes) == (1 + SumSeq(bytes)) % 65521

encode(bytes) == ZlibHeader \o bytes \o <<Adler(bytes)>>

ZlibBody(data) == SubSeq(data, 3, Len(data) - 1)

\* read_to_end(..) succeeds: unwrap() does not panic
decode_ok(data) ==
    /\ Len(data) >= 3
    /\ SubSeq(data, 1, 2) = ZlibHeader
    /\ data[Len(data)] = Adler(ZlibBody(data))

decode(data) == ZlibBody(data)

\* ClipboardMessagePayload
PayloadText(content) == [Text |-> [content |-> content]]
PayloadImage(w, h) == [Image |-> [width |-> w, height |-> h]]

\* serde_json::to_string(&ClipboardMessage { payload })
serialize_clipboard_message(payload) == [payload |-> payload]

\* serde_json::from_str::<ClipboardMessage>(..) succeeds
deserialize_ok(text) ==
    /\ DOMAIN text = {"payload"}
    /\ \/ /\ DOMAIN text.payload = {"Text"}
          /\ DOMAIN text.payload.Text = {"content"}
       \/ /\ DOMAIN text.payload = {"Image"}
          /\ DOMAIN text.payload.Image = {"width", "height"}

deserialize(text) == text.payload

\* tungstenite::Message; org is the origin tag (sender, sequence number) that
\* the properties use to tell messages apart, no handler reads it.
MsgText(text, org) == [kind |-> "Text", text |-> text, org |-> org]
MsgBinary(data, org) == [kind |-> "Binary", data |-> data, org |-> org]
MsgOther(k, org) == [kind |-> k, org |-> org]
Org(p, n) == [src |-> p, n |-> n]

IsHeader(m) ==
    /\ m.kind = "Text"
    /\ deserialize_ok(m.text)
    /\ DOMAIN m.text.payload = {"Image"}

(* ------------------------------ state ---------------------------------- *)
VARIABLES
    clip,        \* the native clipboard of each peer's machine
    cache,       \* ClientState.cache
    image_info,  \* ClientState.image_info
    stlock,      \* Mutex<ClientState>: "free", "det" (held by the detector), "poisoned"
    det,         \* check_clipboard task of the current session
    cur,         \* what check_clipboard read from the clipboard in this tick
    zomb,        \* detectors of ended sessions that were in a tick when aborted
    detFault,    \* detector tasks that panicked on unbounded_send(..).unwrap()
    outq,        \* the session's unbounded channel tx -> rx
    seqno,       \* messages the peer has produced (origin tags)
    cpc,         \* position of start()/run()
    attempts, fails, slept, ended,
    pendingHdr,  \* a header was received since the last binary (observer)
    applied,     \* content handle_message wrote that the clipboard still holds (observer)
    copies, injected, ends,   \* inputs used up: copies, messages, connection endings
    clipFails,   \* ... and failures of the clipboard primitive
    up, down,    \* transport: peer -> relay, relay -> peer (FIFO each)
    map,         \* PeerMap: the registered addresses
    rq,          \* the unbounded channel of each registered connection
    rxAlive,     \* the receiving end of that channel has not been dropped
    spc,         \* position of handle_connection
    mapPoisoned, \* Mutex<HashMap> poisoned by a panic under the lock
    removes,     \* map.remove(&addr) calls executed per connection
    bcastLog     \* (origin tag, registry) of every message the relay read (observer)

cstate == <<clip, cache, image_info, stlock, det, cur, zomb, detFault, outq, seqno>>
cconn == <<cpc, attempts, fails, slept, ended>>
observers == <<pendingHdr, applied>>
budgets == <<copies, injected, ends, clipFails>>
wires == <<up, down>>
rvars == <<map, rq, rxAlive, spc, mapPoisoned, removes, bcastLog>>
cvars == <<cstate, cconn, observers>>
vars == <<cvars, budgets, wires, rvars>>

\* the state in which the peers of conn have an established session with the
\* relay (connect_async and accept_async done, both ends registered) and the
\* others have not connected yet; u and f are the user copies and clipboard
\* failures already behind us
InitWith(clip0, conn, u, f) ==
    /\ clip = clip0
    /\ cache = [p \in Peers |-> TextContent("")]
    /\ image_info = [p \in Peers |-> [width |-> 0, height |-> 0]]
    /\ stlock = [p \in Peers |-> "free"]
    /\ det = [p \in Peers |-> IF p \in conn THEN "sleep" ELSE "none"]
    /\ cur = [p \in Peers |-> [r |-> "Idle"]]
    /\ zomb = [p \in Peers |-> {}]
    /\ detFault = [p \in Peers |-> FALSE]
    /\ outq = [p \in Peers |-> <<>>]
    /\ seqno = [p \in Peers |-> 0]
    /\ cpc = [p \in Peers |-> IF p \in conn THEN "running" ELSE "connecting"]
    /\ attempts = [p \in Peers |-> IF p \in conn THEN 1 ELSE 0]
    /\ fails = [p \in Peers |-> 0]
    /\ slept = [p \in Peers |-> 0]
    /\ ended = [p \in Peers |-> 0]
    /\ pendingHdr = [p \in Peers |-> FALSE]
    /\ applied = [p \in Peers |-> NoContent]
    /\ copies = u
    /\ injected = 0
    /\ ends = 0
    /\ clipFails = f
    /\ up = [p \in Peers |-> <<>>]
    /\ down = [p \in Peers |-> <<>>]
    /\ map = conn
    /\ rq = [p \in Peers |-> <<>>]
    /\ rxAlive = [p \in Peers |-> p \in conn]
    /\ spc = [p \in Peers |-> IF p \in conn THEN "running" ELSE "none"]
    /\ mapPoisoned = FALSE
    /\ removes = [p \in Peers |-> 0]
    /\ bcastLog = <<>>

Init == InitWith([p \in Peers |-> EmptyContent], {}, 0, 0)

(* ------------------------- clipboard primitive ------------------------- *)
\* arboard get_image()/get_text() as check_clipboard uses them: the image if
\* the clipboard holds one, else (ContentNotAvailable) the text. failImage is
\* get_image failing with another error, failText is get_text failing.
ReadClipboard(c, failImage, failText) ==
    IF failImage THEN [r |-> "Err"]
    ELSE IF c.t = "Image" THEN [r |-> "Image", v |-> c]
    ELSE IF c.t = "Text" /\ ~failText THEN [r |-> "Text", v |-> c.s]
    ELSE [r |-> "Err"]

\* set_image refuses a buffer that is not width * height RGBA8 pixels.
ImageWellFormed(img) ==
    /\ img.width > 0
    /\ img.height > 0
    /\ Len(img.bytes) = img.width * img.height * 4

(* --------------------------- change detector --------------------------- *)
\* the two comparisons of check_clipboard against state.cache
\* a detector without the comparison against the cache
Changed_always(cch, rd) == rd.r # "Err"

Changed(cch, rd) ==
    CASE rd.r = "Image" -> ~(cch.t = "Image" /\ cch.bytes = rd.v.bytes)
      [] rd.r = "Text" -> ~(cch.t = "Text" /\ cch.s = rd.v)
      [] OTHER -> FALSE

\* the messages one tick sends for what it read, numbered from n + 1
Notification(rd, p, n) ==
    IF rd.r = "Image"
    THEN << MsgText(serialize_clipboard_message(PayloadImage(rd.v.width, rd.v.height)),
                    Org(p, n + 1)),
            MsgBinary(encode(rd.v.bytes), Org(p, n + 2)) >>
    ELSE << MsgText(serialize_clipboard_message(PayloadText(rd.v)), Org(p, n + 1)) >>

NewCache(rd) == IF rd.r = "Image" THEN rd.v ELSE TextContent(rd.v)

\* the user (or another program) puts content c on p's clipboard
user_copy(p, c) ==
    /\ copies < MaxCopies
    /\ clip[p] # c
    /\ copies' = copies + 1
    /\ clip' = [clip EXCEPT ![p] = c]
    /\ applied' = [applied EXCEPT ![p] = NoContent]
    /\ UNCHANGED <<cache, image_info, stlock, det, cur, zomb, detFault, outq, seqno>>
    /\ UNCHANGED <<cconn, pendingHdr, injected, ends, clipFails, wires, rvars>>

\* a state without a lock: any task may enter at any time
CanLock_always(p) == TRUE

\* state.lock(): returns once no other task holds the mutex
CanLock(p) == stlock[p] # "det"

\* check_clipboard, first half of a tick: the sleep is over, the task takes
\* the state lock (panics if it is poisoned) and reads the clipboard.
check_clipboard_read(p) ==
    /\ det[p] = "sleep"
    /\ CanLock(p)
    /\ seqno[p] < MaxSeq
    /\ IF stlock[p] = "poisoned"
       THEN /\ det' = [det EXCEPT ![p] = "panicked"]
            /\ UNCHANGED <<stlock, cur, clipFails>>
       ELSE /\ \E failImage, failText \in BOOLEAN :
                 /\ (failImage \/ failText) => clipFails < MaxClipFail
                 /\ ~(failImage /\ failText)
                 /\ clipFails' = IF failImage \/ failText THEN clipFails + 1 ELSE clipFails
                 /\ cur' = [cur EXCEPT ![p] = ReadClipboard(clip[p], failImage, failText)]
            /\ stlock' = [stlock EXCEPT ![p] = "det"]
            /\ det' = [det EXCEPT ![p] = "read"]
    /\ UNCHANGED <<clip, cache, image_info, zomb, detFault, outq, seqno>>
    /\ UNCHANGED <<cconn, observers, copies, injected, ends, wires, rvars>>

\* check_clipboard, second half: compare with the cache, send, update the
\* cache, release the lock and go back to sleep.
check_clipboard_send(p) ==
    /\ det[p] = "read"
    /\ IF Changed(cache[p], cur[p])
       THEN /\ outq' = [outq EXCEPT ![p] = @ \o Notification(cur[p], p, seqno[p])]
            /\ seqno' = [seqno EXCEPT ![p] = @ + Len(Notification(cur[p], p, seqno[p]))]
            /\ cache' = [cache EXCEPT ![p] = NewCache(cur[p])]
       ELSE UNCHANGED <<outq, seqno, cache>>
    /\ stlock' = [stlock EXCEPT ![p] = "free"]
    /\ det' = [det EXCEPT ![p] = "sleep"]
    /\ cur' = [cur EXCEPT ![p] = [r |-> "Idle"]]
    /\ UNCHANGED <<clip, image_info, zomb, detFault>>
    /\ UNCHANGED <<cconn, observers, budgets, wires, rvars>>

\* the second half of a tick of a detector whose session has returned: the
\* receiver of its channel is dropped, so unbounded_send(..).unwrap() panics;
\* with nothing to send the task reaches its sleep and is cancelled there.
check_clipboard_orphan(p) ==
    /\ \E z \in zomb[p] :
        /\ zomb' = [zomb EXCEPT ![p] = @ \ {z}]
        /\ detFault' = [detFault EXCEPT ![p] = @ \/ Changed(z.cache, z.cur)]
    /\ UNCHANGED <<clip, cache, image_info, stlock, det, cur, outq, seqno>>
    /\ UNCHANGED <<cconn, observers, budgets, wires, rvars>>

(* ---------------------------- inbound path ----------------------------- *)
\* set_text/set_image: succeeds (ok) only on content the clipboard accepts,
\* and may fail on any content
WriteOutcome(ok, acceptable) ==
    /\ ok => acceptable
    /\ (~ok /\ acceptable) => clipFails < MaxClipFail
    /\ clipFails' = IF ~ok /\ acceptable THEN clipFails + 1 ELSE clipFails

\* handle_message panics: the lock is poisoned, from_str(..).unwrap() or
\* read_to_end(..).unwrap() fails
HandlePanics(p, m) ==
    \/ stlock[p] = "poisoned"
    \/ m.kind = "Text" /\ ~deserialize_ok(m.text)
    \/ m.kind = "Binary" /\ ~decode_ok(m.data)

\* a handler that keeps the first header while a payload is outstanding
StoredHeader_first(p, payload) == IF pendingHdr[p] THEN image_info[p] ELSE payload

\* state.image_info = payload
StoredHeader(p, payload) == payload

\* an image built with the two dimensions of the header exchanged
ReceivedImage_swapped(p, m) ==
    ImageContent(image_info[p].height, image_info[p].width, decode(m.data))

\* the image handle_message builds from a binary message
ReceivedImage(p, m) ==
    ImageContent(image_info[p].width, image_info[p].height, decode(m.data))

\* handle_message(message, state) for the next message of the read stream.
\* A panic unwinds run(): the held lock is poisoned and the task is gone.
handle_message(p) ==
    /\ cpc[p] = "running"
    /\ down[p] # <<>>
    /\ CanLock(p)
    /\ down' = [down EXCEPT ![p] = Tail(@)]
    /\ LET m == Head(down[p]) IN
       IF HandlePanics(p, m)
       THEN /\ cpc' = [cpc EXCEPT ![p] = "panicked"]
            /\ stlock' = [stlock EXCEPT ![p] = "poisoned"]
            /\ UNCHANGED <<clip, cache, image_info, observers, clipFails>>
       ELSE
         /\ UNCHANGED <<cpc, stlock>>
         /\ CASE m.kind = "Text" /\ DOMAIN deserialize(m.text) = {"Text"} ->
                   LET content == deserialize(m.text).Text.content IN
                   /\ \E ok \in BOOLEAN :
                        /\ WriteOutcome(ok, TRUE)
                        /\ clip' = [clip EXCEPT ![p] = IF ok THEN TextContent(content) ELSE @]
                        /\ applied' = [applied EXCEPT ![p] = IF ok THEN TextContent(content) ELSE @]
                   /\ cache' = [cache EXCEPT ![p] = TextContent(content)]
                   /\ UNCHANGED <<image_info, pendingHdr>>
              [] m.kind = "Text" /\ DOMAIN deserialize(m.text) = {"Image"} ->
                   /\ image_info' = [image_info EXCEPT ![p] =
                                       StoredHeader(p, deserialize(m.text).Image)]
                   /\ pendingHdr' = [pendingHdr EXCEPT ![p] = TRUE]
                   /\ UNCHANGED <<clip, cache, applied, clipFails>>
              [] m.kind = "Binary" ->
                   LET image == ReceivedImage(p, m) IN
                   /\ \E ok \in BOOLEAN :
                        /\ WriteOutcome(ok, ImageWellFormed(image))
                        /\ clip' = [clip EXCEPT ![p] = IF ok THEN image ELSE @]
                        /\ applied' = [applied EXCEPT ![p] = IF ok THEN image ELSE @]
                   /\ cache' = [cache EXCEPT ![p] = image]
                   /\ pendingHdr' = [pendingHdr EXCEPT ![p] = FALSE]
                   /\ UNCHANGED image_info
              [] OTHER ->
                   UNCHANGED <<clip, cache, image_info, observers, clipFails>>
    /\ UNCHANGED <<det, cur, zomb, detFault, outq, seqno>>
    /\ UNCHANGED <<attempts, fails, slept, ended>>
    /\ UNCHANGED <<copies, injected, ends, up, rvars>>

(* ---------------------------- outbound path ---------------------------- *)
\* forward_ws = rx.map(Ok).forward(write): one message from the channel to
\* the socket
ForwardWs(p) ==
    /\ cpc[p] = "running"
    /\ outq[p] # <<>>
    /\ outq' = [outq EXCEPT ![p] = Tail(@)]
    /\ UNCHANGED <<clip, cache, image_info, stlock, det, cur, zomb, detFault, seqno>>
    /\ UNCHANGED <<cconn, observers, budgets, down, rvars>>

\* ... of a peer whose far end is the network at large, which takes the message
forward_ws_net(p) ==
    /\ ForwardWs(p)
    /\ UNCHANGED up

\* ... of a peer connected to the relay
forward_ws(p) ==
    /\ ForwardWs(p)
    /\ up' = [up EXCEPT ![p] = Append(@, Head(outq[p]))]

\* a session that takes over the state of the session before it
NewClientState_kept(p) == [cache |-> cache[p], image_info |-> image_info[p]]

\* run(): ClientState { cache: Text(String::new()), image_info: 0 x 0, .. }
NewClientState(p) ==
    [cache |-> TextContent(""), image_info |-> [width |-> 0, height |-> 0]]

(* ------------------------- session and reconnect ----------------------- *)
\* start(): connect_async_with_config(..).await; Ok enters run(), which
\* builds the ClientState and the channel and spawns check_clipboard; Err
\* goes to the retry sleep.
Connect(p, ok, sessions) ==
    /\ cpc[p] = "connecting"
    /\ attempts[p] < MaxAttempts
    /\ ok => ended[p] < sessions
    /\ attempts' = [attempts EXCEPT ![p] = @ + 1]
    /\ IF ok
       THEN /\ cpc' = [cpc EXCEPT ![p] = "running"]
            /\ cache' = [cache EXCEPT ![p] = NewClientState(p).cache]
            /\ image_info' = [image_info EXCEPT ![p] = NewClientState(p).image_info]
            /\ stlock' = [stlock EXCEPT ![p] = "free"]
            /\ det' = [det EXCEPT ![p] = "sleep"]
            /\ cur' = [cur EXCEPT ![p] = [r |-> "Idle"]]
            /\ outq' = [outq EXCEPT ![p] = <<>>]
            /\ pendingHdr' = [pendingHdr EXCEPT ![p] = FALSE]
            /\ applied' = [applied EXCEPT ![p] = NoContent]
            /\ UNCHANGED fails
       ELSE /\ cpc' = [cpc EXCEPT ![p] = "retry_wait"]
            /\ fails' = [fails EXCEPT ![p] = @ + 1]
            /\ UNCHANGED <<cache, image_info, stlock, det, cur, outq, observers>>
    /\ UNCHANGED <<clip, zomb, detFault, seqno, slept, ended>>

\* an attempt of start(); at most MaxSessions sessions are started
ConnectAttempt(p, ok) == Connect(p, ok, MaxSessions)

\* a connection attempt of a peer whose far end is the network at large
start_connect(p, ok) ==
    /\ ConnectAttempt(p, ok)
    /\ UNCHANGED <<budgets, wires, rvars>>

\* a retry wait that grows with the number of failures
start_retry_backoff(p) ==
    /\ cpc[p] = "retry_wait"
    /\ slept' = [slept EXCEPT ![p] = @ + RETRY_CONNECT_INTERVAL_IN_SECONDS * fails[p]]
    /\ cpc' = [cpc EXCEPT ![p] = "connecting"]
    /\ UNCHANGED <<cstate, attempts, fails, ended>>
    /\ UNCHANGED <<observers, budgets, wires, rvars>>

\* start(): sleep(RETRY_CONNECT_INTERVAL_IN_SECONDS) after a failed attempt
start_retry_sleep(p) ==
    /\ cpc[p] = "retry_wait"
    /\ slept' = [slept EXCEPT ![p] = @ + RETRY_CONNECT_INTERVAL_IN_SECONDS]
    /\ cpc' = [cpc EXCEPT ![p] = "connecting"]
    /\ UNCHANGED <<cstate, attempts, fails, ended>>
    /\ UNCHANGED <<observers, budgets, wires, rvars>>

\* run(): the read stream ended or a write failed, so select(forward_ws,
\* handler) is over; check_clipboard_handler.abort(); return to the loop of
\* start(). abort() cancels a sleeping detector; one that is in a tick runs
\* on to its next await. Returning drops rx and the unread messages.
run_teardown(p) ==
    /\ cpc[p] = "running"
    /\ cpc' = [cpc EXCEPT ![p] = "connecting"]
    /\ ended' = [ended EXCEPT ![p] = @ + 1]
    /\ det' = [det EXCEPT ![p] = "none"]
    /\ zomb' = [zomb EXCEPT ![p] =
                  IF det[p] = "read" THEN @ \cup {[cache |-> cache[p], cur |-> cur[p]]} ELSE @]
    /\ outq' = [outq EXCEPT ![p] = <<>>]
    /\ down' = [down EXCEPT ![p] = <<>>]
    /\ cache' = [cache EXCEPT ![p] = NewClientState(p).cache]
    /\ image_info' = [image_info EXCEPT ![p] = NewClientState(p).image_info]
    /\ stlock' = [stlock EXCEPT ![p] = "free"]
    /\ cur' = [cur EXCEPT ![p] = [r |-> "Idle"]]
    /\ pendingHdr' = [pendingHdr EXCEPT ![p] = FALSE]
    /\ applied' = [applied EXCEPT ![p] = NoContent]
    /\ UNCHANGED <<clip, detFault, seqno>>
    /\ UNCHANGED <<attempts, fails, slept>>
    /\ UNCHANGED <<budgets, up, rvars>>

(* ------------------- the transport as the peer sees it ----------------- *)
\* a message arrives from the network
net_deliver(p, m) ==
    /\ cpc[p] = "running"
    /\ injected < MaxInject
    /\ injected' = injected + 1
    /\ down' = [down EXCEPT ![p] = Append(@, m)]
    /\ UNCHANGED <<cvars, copies, ends, clipFails, up, rvars>>

NetOrg == Org("net", 0)

\* what the network can hand to a peer
NetMessages ==
    { MsgText(serialize_clipboard_message(PayloadText("hello")), NetOrg),
      MsgText(serialize_clipboard_message(PayloadImage(1, 1)), NetOrg),
      MsgBinary(encode(PixRed), NetOrg),
      MsgText([garbage |-> "x"], NetOrg),
      MsgBinary(<<120, 156, 255>>, NetOrg),
      MsgOther("Ping", NetOrg) }

\* what a user can copy
UserContents == {TextContent("world"), ImgRed}

ClientPeers == {"A"}

NextClient ==
    \E p \in ClientPeers :
        \/ \E c \in UserContents : user_copy(p, c)
        \/ check_clipboard_read(p)
        \/ check_clipboard_send(p)
        \/ check_clipboard_orphan(p)
        \/ handle_message(p)
        \/ forward_ws_net(p)
        \/ start_connect(p, TRUE)
        \/ run_teardown(p)
        \/ \E m \in NetMessages : net_deliver(p, m)

SpecClient == Init /\ [][NextClient]_vars

\* the reconnect loop of start() around sessions in which nothing is copied
\* or received
NextStart ==
    \E p \in ClientPeers :
        \/ \E ok \in BOOLEAN : start_connect(p, ok)
        \/ start_retry_sleep(p)
        \/ run_teardown(p)
        \/ \E c \in UserContents : user_copy(p, c)
        \/ check_clipboard_read(p)
        \/ check_clipboard_send(p)
        \/ check_clipboard_orphan(p)
        \/ forward_ws_net(p)

SpecStart == Init /\ [][NextStart]_vars

(* ============================== the relay ============================== *)
\* a broadcast that does not leave out the sender
Recipients_all(p) == map

\* broadcast_recipients: every registered address but the sender's own
Recipients(p) == {b \in map : b # p}

\* a map without a mutex: lock() never waits
MapFree_always == TRUE

\* map.lock(): returns once no task is inside a broadcast, the one registry
\* operation that holds the mutex over more than one step of the model
MapFree == \A b \in Peers : spc[b] # "broadcasting"

\* handle_connection up to the split: the handshake is done, the channel is
\* made and its sender is inserted into the map
Accept(p) ==
    /\ spc[p] = "none"
    /\ MapFree
    /\ IF mapPoisoned
       THEN /\ spc' = [spc EXCEPT ![p] = "panicked"]
            /\ UNCHANGED <<map, rq, rxAlive>>
       ELSE /\ spc' = [spc EXCEPT ![p] = "running"]
            /\ map' = map \cup {p}
            /\ rq' = [rq EXCEPT ![p] = <<>>]
            /\ rxAlive' = [rxAlive EXCEPT ![p] = TRUE]
    /\ UNCHANGED <<mapPoisoned, removes, bcastLog>>

\* a connection of some websocket client of the network at large
handle_connection_accept(p) ==
    /\ Accept(p)
    /\ UNCHANGED <<cvars, budgets, wires>>

\* broadcast_incoming: the closure of try_for_each for the next message read
\* from p. A Close is not forwarded; the stream ends after it, which
\* completes the select. unbounded_send to a dropped receiver fails and
\* unwrap() panics under the map lock.
broadcast_incoming(p) ==
    /\ spc[p] = "running"
    /\ up[p] # <<>>
    /\ Head(up[p]).kind # "Close" => MapFree
    /\ up' = [up EXCEPT ![p] = Tail(@)]
    /\ LET msg == Head(up[p]) IN
       IF msg.kind = "Close"
       THEN /\ spc' = [spc EXCEPT ![p] = "selected"]
            /\ UNCHANGED <<map, rq, rxAlive, mapPoisoned, bcastLog>>
       ELSE IF mapPoisoned \/ \E b \in Recipients(p) : ~rxAlive[b]
       THEN /\ spc' = [spc EXCEPT ![p] = "panicked"]
            /\ mapPoisoned' = TRUE
            /\ rxAlive' = [rxAlive EXCEPT ![p] = FALSE]
            /\ \E done \in SUBSET {b \in Recipients(p) : rxAlive[b] /\ ~mapPoisoned} :
                 rq' = [b \in Peers |-> IF b \in done THEN Append(rq[b], msg) ELSE rq[b]]
            /\ UNCHANGED <<map, bcastLog>>
       ELSE /\ rq' = [b \in Peers |->
                        IF b \in Recipients(p) THEN Append(rq[b], msg) ELSE rq[b]]
            /\ bcastLog' = Append(bcastLog, [org |-> msg.org, regs |-> map])
            /\ UNCHANGED <<map, rxAlive, spc, mapPoisoned>>
    /\ UNCHANGED removes
    /\ UNCHANGED <<cvars, budgets, down>>

\* a relay whose writers move in lock-step: a connection is written to only
\* when no other registered connection has a backlog
receive_from_others_lockstep(p) ==
    /\ spc[p] = "running"
    /\ rq[p] # <<>>
    /\ \A b \in map \ {p} : rq[b] = <<>>
    /\ down' = [down EXCEPT ![p] = Append(@, Head(rq[p]))]
    /\ rq' = [rq EXCEPT ![p] = Tail(@)]
    /\ UNCHANGED <<map, rxAlive, spc, mapPoisoned, removes, bcastLog>>
    /\ UNCHANGED <<cvars, budgets, up>>

\* receive_from_others = rx.map(Ok).forward(outgoing): one message from the
\* channel to the socket
receive_from_others(p) ==
    /\ spc[p] = "running"
    /\ rq[p] # <<>>
    /\ down' = [down EXCEPT ![p] = Append(@, Head(rq[p]))]
    /\ rq' = [rq EXCEPT ![p] = Tail(@)]
    /\ UNCHANGED <<map, rxAlive, spc, mapPoisoned, removes, bcastLog>>
    /\ UNCHANGED <<cvars, budgets, up>>

\* select(broadcast_incoming, receive_from_others).await returns: the read
\* stream ended (closure or error), a write to the socket failed, or both
handle_connection_select(p) ==
    /\ spc[p] = "running"
    /\ ends < MaxEnds
    /\ ends' = ends + 1
    /\ spc' = [spc EXCEPT ![p] = "selected"]
    /\ UNCHANGED <<map, rq, rxAlive, mapPoisoned, removes, bcastLog>>
    /\ UNCHANGED <<cvars, copies, injected, clipFails, wires>>

\* a session end that leaves the entry in the map
Unregister_keep(p) ==
    /\ spc' = [spc EXCEPT ![p] = "removed"]
    /\ removes' = [removes EXCEPT ![p] = @ + 1]
    /\ UNCHANGED <<map, rxAlive>>

\* map.lock().unwrap().remove(&addr)
Unregister(p) ==
    IF mapPoisoned
    THEN /\ spc' = [spc EXCEPT ![p] = "panicked"]
         /\ rxAlive' = [rxAlive EXCEPT ![p] = FALSE]
         /\ UNCHANGED <<map, removes>>
    ELSE /\ spc' = [spc EXCEPT ![p] = "removed"]
         /\ map' = map \ {p}
         /\ removes' = [removes EXCEPT ![p] = @ + 1]
         /\ UNCHANGED rxAlive

handle_connection_remove(p) ==
    /\ spc[p] = "selected"
    /\ MapFree
    /\ Unregister(p)
    /\ UNCHANGED <<rq, mapPoisoned, bcastLog>>
    /\ UNCHANGED <<cvars, budgets, wires>>

\* handle_connection returns: its locals, the receiver rx among them, drop
handle_connection_drop(p) ==
    /\ spc[p] = "removed"
    /\ spc' = [spc EXCEPT ![p] = "ended"]
    /\ rxAlive' = [rxAlive EXCEPT ![p] = FALSE]
    /\ UNCHANGED <<map, rq, mapPoisoned, removes, bcastLog>>
    /\ UNCHANGED <<cvars, budgets, wires>>

(* ----------------- the transport as the relay sees it ------------------ *)
\* the client at the far end of connection p sends a message
peer_send(p, m) ==
    /\ spc[p] = "running"
    /\ injected < MaxInject
    /\ injected' = injected + 1
    /\ IF m.kind = "Close"
       THEN ends < MaxEnds /\ ends' = ends + 1
       ELSE UNCHANGED ends
    /\ seqno' = [seqno EXCEPT ![p] = @ + 1]
    /\ up' = [up EXCEPT ![p] = Append(@, m)]
    /\ UNCHANGED <<clip, cache, image_info, stlock, det, cur, zomb, detFault, outq>>
    /\ UNCHANGED <<cconn, observers, copies, clipFails, down, rvars>>

\* what a websocket client can send, tagged with its origin
PeerMessages(p, n) ==
    { MsgText(serialize_clipboard_message(PayloadText("hello")), Org(p, n)),
      MsgOther("Close", Org(p, n)) }

NextRelayOf(conns) ==
    \E p \in conns :
        \/ handle_connection_accept(p)
        \/ \E m \in PeerMessages(p, seqno[p] + 1) : peer_send(p, m)
        \/ broadcast_incoming(p)
        \/ receive_from_others(p)
        \/ handle_connection_select(p)
        \/ handle_connection_remove(p)
        \/ handle_connection_drop(p)

NextRelay == NextRelayOf(Peers)

SpecRelay == Init /\ [][NextRelay]_vars

\* the relay with two connections
NextRelayPair == NextRelayOf({"A", "B"})

(* ======================= properties of the peer ======================== *)
\* the step of p is the second half of a detector tick
TickStep(p) == det[p] = "read" /\ det'[p] = "sleep"

\* what the tick of p appended to the channel
TickAdded(p) == SubSeq(outq'[p], Len(outq[p]) + 1, Len(outq'[p]))

\* the step of p is handle_message taking the next inbound message
HandleStep(p) ==
    /\ cpc[p] = "running"
    /\ cpc'[p] # "connecting"
    /\ down[p] # <<>>
    /\ down'[p] = Tail(down[p])

\* the content a successful read stands for
ReadContent(rd) == IF rd.r = "Image" THEN rd.v ELSE TextContent(rd.v)

\* C2 (as claimed): once handle_message has written received content X to the
\* clipboard and the clipboard still holds X, no detector tick enqueues
\* anything.
C2_EchoSuppression ==
    [][\A p \in Peers :
         (TickStep(p) /\ applied[p] # NoContent /\ clip[p] = applied[p])
            => outq'[p] = outq[p]]_vars

\* C4 (as claimed): a binary message that arrives with no pending image
\* header is dropped: it changes neither the clipboard nor the cache.
C4_PendingHeader ==
    [][\A p \in Peers :
         (HandleStep(p) /\ Head(down[p]).kind = "Binary" /\ ~pendingHdr[p])
            => (cache'[p] = cache[p] /\ clip'[p] = clip[p])]_vars

\* C6 (as claimed): an inbound message that is not a valid envelope or not a
\* valid compressed stream is dropped, leaves clipboard and peer state as
\* they are, and the session goes on.
C6_CodecErrorKeepsSession ==
    [][\A p \in Peers :
         (HandleStep(p) /\ stlock[p] = "free" /\ HandlePanics(p, Head(down[p])))
            => /\ cpc'[p] = "running"
               /\ stlock'[p] = "free"
               /\ clip'[p] = clip[p]
               /\ cache'[p] = cache[p]
               /\ image_info'[p] = image_info[p]]_vars

\* C7: every failed attempt has been followed by exactly one wait of
\* RETRY_CONNECT_INTERVAL_IN_SECONDS, after the wait another attempt is
\* possible, every attempt either failed or started a session, and a started
\* session has an unpoisoned state and a live detector.
C7_RetryPolicy ==
    \A p \in Peers :
        /\ cpc[p] \in {"connecting", "running"}
              => slept[p] = RETRY_CONNECT_INTERVAL_IN_SECONDS * fails[p]
        /\ cpc[p] = "retry_wait"
              => slept[p] = RETRY_CONNECT_INTERVAL_IN_SECONDS * (fails[p] - 1)
        /\ attempts[p] = fails[p] + ended[p] + (IF cpc[p] = "running" THEN 1 ELSE 0)
        /\ (cpc[p] = "connecting" /\ attempts[p] < MaxAttempts)
              => ENABLED start_connect(p, FALSE)
        /\ cpc[p] = "running"
              => det[p] \in {"sleep", "read"} /\ stlock[p] # "poisoned"

\* three failures, then the fourth attempt starts a session
C7_Witness ==
    \E p \in Peers :
        /\ fails[p] = 3
        /\ attempts[p] = 4
        /\ cpc[p] = "running"
        /\ slept[p] = 3 * RETRY_CONNECT_INTERVAL_IN_SECONDS

\* C8 (as claimed): the reconnection wait also follows the end of an
\* established session, so whenever the client is about to attempt a
\* connection it has waited once per failed attempt and once per ended session.
C8_WaitAfterSessionEnd ==
    \A p \in Peers :
        cpc[p] = "connecting"
           => slept[p] = RETRY_CONNECT_INTERVAL_IN_SECONDS * (fails[p] + ended[p])

\* C9: a tick appends nothing, one text notification of what it read, or the
\* header of the image it read followed by that image's compressed bytes; it
\* appends nothing and keeps the cache when the read failed or equals the
\* cache; the cache becomes what was read exactly when something was appended.
C9_TickEffect ==
    [][\A p \in Peers : TickStep(p) =>
         LET added == TickAdded(p)
             rd == cur[p]
         IN  /\ SubSeq(outq'[p], 1, Len(outq[p])) = outq[p]
             /\ \/ added = <<>>
                \/ /\ rd.r = "Text"
                   /\ Len(added) = 1
                   /\ added[1].kind = "Text"
                   /\ added[1].text = [payload |-> [Text |-> [content |-> rd.v]]]
                \/ /\ rd.r = "Image"
                   /\ Len(added) = 2
                   /\ added[1].kind = "Text"
                   /\ added[1].text =
                        [payload |-> [Image |-> [width |-> rd.v.width, height |-> rd.v.height]]]
                   /\ added[2].kind = "Binary"
                   /\ decode_ok(added[2].data)
                   /\ decode(added[2].data) = rd.v.bytes
             /\ (rd.r = "Err" \/ ReadContent(rd) = cache[p])
                   => (added = <<>> /\ cache'[p] = cache[p])
             /\ added = <<>> => cache'[p] = cache[p]
             /\ added # <<>> => (cache'[p] = ReadContent(rd) /\ cache'[p] # cache[p])]_vars

\* a tick has just sent an image: header and payload are the last two
\* messages of the channel and the cache holds the image
C9_Witness ==
    \E p \in Peers :
        /\ det[p] = "sleep"
        /\ cache[p] = ImgRed
        /\ clip[p] = ImgRed
        /\ Len(outq[p]) >= 2
        /\ IsHeader(outq[p][Len(outq[p]) - 1])
        /\ outq[p][Len(outq[p])].kind = "Binary"

\* C10 (as claimed): once a session has returned and its channel is closed,
\* no detector sends on the closed channel, so none faults on such a send.
C10_NoSendAfterClose == \A p \in Peers : ~detFault[p]

(* ======================= properties of the relay ======================= *)
\* every message ever enqueued for connection b, oldest first
Outbound(b) == down[b] \o rq[b]

\* how often the message with origin tag o was enqueued for b
Copies(o, b) == Cardinality({k \in DOMAIN Outbound(b) : Outbound(b)[k].org = o})

\* C1: a non-close message read from a connection is enqueued exactly once
\* for every other connection registered at that moment and for no one else
\* (never for its sender), and the messages of one sender stand in every
\* recipient's queue in the order they were sent.
C1_Fanout ==
    /\ \A i \in DOMAIN bcastLog : \A b \in Peers :
          Copies(bcastLog[i].org, b) =
             IF b \in bcastLog[i].regs /\ b # bcastLog[i].org.src THEN 1 ELSE 0
    /\ \A b \in Peers : \A k \in DOMAIN Outbound(b) :
          /\ Outbound(b)[k].org.src # b
          /\ Outbound(b)[k].kind # "Close"
          /\ \E i \in DOMAIN bcastLog : bcastLog[i].org = Outbound(b)[k].org
          /\ \A j \in DOMAIN Outbound(b) :
                (j < k /\ Outbound(b)[j].org.src = Outbound(b)[k].org.src)
                   => Outbound(b)[j].org.n < Outbound(b)[k].org.n

\* A has sent two messages while B and C were registered: both hold the two
\* in order, A holds none
C1_Witness ==
    /\ Len(bcastLog) = 2
    /\ \A i \in {1, 2} : bcastLog[i].org = Org("A", i) /\ bcastLog[i].regs = Peers
    /\ \A b \in {"B", "C"} :
          /\ Len(Outbound(b)) = 2
          /\ Outbound(b)[1].org = Org("A", 1)
          /\ Outbound(b)[2].org = Org("A", 2)
    /\ Outbound("A") = <<>>

\* the tasks of a connection are polled when they can make progress
RelayFairness ==
    \A p \in Peers :
        /\ WF_vars(handle_connection_remove(p))
        /\ WF_vars(handle_connection_drop(p))

SpecRelayFair == Init /\ [][NextRelayPair]_vars /\ RelayFairness

\* C5: once a direction of a connection has ended its entry is eventually
\* removed; the removal runs once and without a fault; and after it no
\* broadcast enqueues anything for the connection.
C5_Cleanup ==
    /\ [](\A p \in Peers :
            /\ removes[p] <= 1
            /\ spc[p] # "panicked"
            /\ ~mapPoisoned
            /\ spc[p] \in {"removed", "ended"} => (p \notin map /\ removes[p] = 1)
            /\ spc[p] \in {"none", "running", "selected"} => removes[p] = 0)
    /\ [][\A p \in Peers : spc[p] \in {"removed", "ended"} => rq'[p] = rq[p]]_vars
    /\ \A p \in Peers : (spc[p] = "selected") ~> (p \notin map /\ spc[p] = "ended")

\* a connection was registered during one broadcast, has ended since, and a
\* later broadcast passed it by
C5_Witness ==
    \E p \in Peers : \E i, j \in DOMAIN bcastLog :
        /\ i < j
        /\ spc[p] = "ended"
        /\ removes[p] = 1
        /\ p \in bcastLog[i].regs
        /\ bcastLog[i].org.src # p
        /\ p \notin bcastLog[j].regs
        /\ bcastLog[j].org.src # p
        /\ Copies(bcastLog[i].org, p) = 1
        /\ Copies(bcastLog[j].org, p) = 0

(* ====================== peers connected to the relay =================== *)
\* three peers are connected to the relay; two users have copied an image
\* each, and the clipboards work from here on
InitSys ==
    InitWith([p \in Peers |->
                CASE p = "A" -> ImgRed [] p = "B" -> ImgTwo [] OTHER -> EmptyContent],
             Peers, MaxCopies, MaxClipFail)

NextSys ==
    \E p \in Peers :
        \/ check_clipboard_read(p)
        \/ check_clipboard_send(p)
        \/ forward_ws(p)
        \/ broadcast_incoming(p)
        \/ receive_from_others(p)
        \/ handle_message(p)

Spec == InitSys /\ [][NextSys]_vars

\* the messages p has sent that the relay has not read yet, oldest first
Upstream(p) == up[p] \o outq[p]

\* the messages on their way to p, oldest first
Downstream(p) == down[p] \o rq[p]

\* in s every image header is directly followed by the binary payload that
\* its sender sent after it
Adjacent(s) ==
    \A k \in DOMAIN s :
        (IsHeader(s[k]) /\ k < Len(s))
           => /\ s[k + 1].kind = "Binary"
              /\ s[k + 1].org = Org(s[k].org.src, s[k].org.n + 1)

\* C3 (as claimed): on every direction of every connection, the one from the
\* relay to a recipient included, an image header is directly followed by its
\* own binary payload.
C3_HeaderPayloadAdjacent ==
    \A p \in Peers : Adjacent(Upstream(p)) /\ Adjacent(Downstream(p))

(* ================== the relay of main.rs (create-server) =============== *)
\* main.rs handle_connection, broadcast_incoming: the closure of
\* try_for_each has no match on the message, every message read from p is
\* sent to the other registered connections, a Close included. The stream
\* ends after a Close, which completes the select.
main_broadcast_incoming(p) ==
    /\ spc[p] = "running"
    /\ up[p] # <<>>
    /\ MapFree
    /\ up' = [up EXCEPT ![p] = Tail(@)]
    /\ LET msg == Head(up[p]) IN
       IF mapPoisoned \/ \E b \in Recipients(p) : ~rxAlive[b]
       THEN /\ spc' = [spc EXCEPT ![p] = "panicked"]
            /\ mapPoisoned' = TRUE
            /\ rxAlive' = [rxAlive EXCEPT ![p] = FALSE]
            /\ \E done \in SUBSET {b \in Recipients(p) : rxAlive[b] /\ ~mapPoisoned} :
                 rq' = [b \in Peers |-> IF b \in done THEN Append(rq[b], msg) ELSE rq[b]]
            /\ UNCHANGED <<map, bcastLog>>
       ELSE /\ rq' = [b \in Peers |->
                        IF b \in Recipients(p) THEN Append(rq[b], msg) ELSE rq[b]]
            /\ bcastLog' = Append(bcastLog, [org |-> msg.org, regs |-> map])
            /\ spc' = [spc EXCEPT ![p] = IF msg.kind = "Close" THEN "selected" ELSE @]
            /\ UNCHANGED <<map, rxAlive, mapPoisoned>>
    /\ UNCHANGED removes
    /\ UNCHANGED <<cvars, budgets, down>>

\* main.rs receive_from_others = rx.map(Ok).forward(outgoing): one message
\* from the channel to the socket. Writing a Close closes the connection, so
\* the forward ends and completes the select.
main_receive_from_others(p) ==
    /\ spc[p] = "running"
    /\ rq[p] # <<>>
    /\ down' = [down EXCEPT ![p] = Append(@, Head(rq[p]))]
    /\ rq' = [rq EXCEPT ![p] = Tail(@)]
    /\ spc' = [spc EXCEPT ![p] = IF Head(rq[p]).kind = "Close" THEN "selected" ELSE @]
    /\ UNCHANGED <<map, rxAlive, mapPoisoned, removes, bcastLog>>
    /\ UNCHANGED <<cvars, budgets, up>>

NextRelayMain ==
    \E p \in Peers :
        \/ handle_connection_accept(p)
        \/ \E m \in PeerMessages(p, seqno[p] + 1) : peer_send(p, m)
        \/ main_broadcast_incoming(p)
        \/ main_receive_from_others(p)
        \/ handle_connection_select(p)
        \/ handle_connection_remove(p)
        \/ handle_connection_drop(p)

SpecRelayMain == Init /\ [][NextRelayMain]_vars

\* the relay reads a Close from connection p in this step
ReadsClose(p) ==
    /\ spc[p] = "running"
    /\ up[p] # <<>>
    /\ Head(up[p]).kind = "Close"
    /\ up'[p] = Tail(up[p])

\* C11 (as claimed): when the relay reads a Close from a connection, nothing
\* is enqueued for any other connection, and no other connection's session
\* is ended by it.
C11_CloseNotBroadcast ==
    [][\A p \in Peers : ReadsClose(p) =>
          \A b \in Peers \ {p} : rq'[b] = rq[b] /\ spc'[b] = spc[b]]_vars

(* ================= the relay with a recipient that is stuck ============ *)
\* A sends, B's transport works, C's outbound direction never drains its
\* queue; B and C may fail and are unregistered some time after
NextRelaySlow ==
    \/ \E p \in Peers : handle_connection_accept(p)
    \/ \E m \in PeerMessages("A", seqno["A"] + 1) : peer_send("A", m)
    \/ broadcast_incoming("A")
    \/ receive_from_others("B")
    \/ \E p \in {"B", "C"} : handle_connection_select(p)
    \/ \E p \in Peers : handle_connection_remove(p)
    \/ \E p \in Peers : handle_connection_drop(p)

\* the task of B's connection is polled whenever its channel holds a message
SpecRelaySlow == Init /\ [][NextRelaySlow]_vars /\ WF_vars(receive_from_others("B"))

\* the relay takes a non-close message of p from the socket in this step
BroadcastStep(p) ==
    /\ spc[p] = "running"
    /\ up[p] # <<>>
    /\ Head(up[p]).kind # "Close"
    /\ up'[p] = Tail(up[p])

\* the message with origin tag o is in sequence q
Holds(q, o) == \E k \in DOMAIN q : q[k].org = o

\* the origin tags of what A can send
OrgsOfA == {Org("A", n) : n \in 1..(MaxInject + 1)}

\* C12: whatever the backlog or state of the other connections, a message
\* read from a connection can be broadcast, the broadcast enqueues it for
\* every other registered connection in that one step and leaves its own
\* session running; and a message enqueued for B reaches B's transport
\* unless B's own connection ends.
C12_SlowRecipient ==
    /\ [](\A p \in Peers :
            (spc[p] = "running" /\ up[p] # <<>>) => ENABLED broadcast_incoming(p))
    /\ [][\A p \in Peers : BroadcastStep(p) =>
            /\ spc'[p] = "running"
            /\ \A b \in Recipients(p) : rq'[b] = Append(rq[b], Head(up[p]))]_vars
    /\ \A o \in OrgsOfA :
          Holds(rq["B"], o) ~> (Holds(down["B"], o) \/ spc["B"] # "running")

\* C never drained its queue and has failed without being unregistered yet,
\* while both messages of A have been written to B's transport
C12_Witness ==
    /\ Len(rq["C"]) = 2
    /\ spc["C"] = "selected"
    /\ "C" \in map
    /\ spc["B"] = "running"
    /\ Holds(down["B"], Org("A", 1))
    /\ Holds(down["B"], Org("A", 2))
    /\ rq["C"][2].org = Org("A", 2)

(* ============ one sending peer, one receiving peer, one relay ========== *)
\* A and B have established sessions; A's clipboard holds an image
InitTransfer ==
    \E img \in {ImgTwo, ImgFour} :
        InitWith([p \in Peers |-> IF p = "A" THEN img ELSE EmptyContent],
                 {"A", "B"}, 0, 0)

NextTransfer ==
    \/ \E c \in UserContents : user_copy("A", c)
    \/ \E p \in {"A", "B"} :
        \/ check_clipboard_read(p)
        \/ check_clipboard_send(p)
        \/ forward_ws(p)
        \/ broadcast_incoming(p)
        \/ receive_from_others(p)
        \/ handle_message(p)

SpecTransfer == InitTransfer /\ [][NextTransfer]_vars

\* the images a user of the model can have on the clipboard
Images == {ImgRed, ImgTwo, ImgFour}

\* the image a detector observed when it read the pixel bytes P (the images
\* of the model differ in their bytes)
ImageOf(P) == CHOOSE img \in Images : img.bytes = P

\* the step of p is handle_message taking a binary message
HandleBinary(p) == HandleStep(p) /\ Head(down[p]).kind = "Binary"

\* C13: the payload decodes to the bytes that were encoded; on its way to
\* the receiver a payload stands directly behind its header (or is next in
\* line with its header already stored); and handling a payload makes the
\* cache, and the clipboard unless the clipboard write itself fails, the
\* image the sender observed, with its width, height and bytes.
C13_ImageTransfer ==
    /\ [](\A img \in Images :
            decode_ok(encode(img.bytes)) /\ decode(encode(img.bytes)) = img.bytes)
    /\ [](\A p \in {"A", "B"} : \A k \in DOMAIN Downstream(p) :
            LET s == Downstream(p) IN
            s[k].kind = "Binary" =>
               LET img == ImageOf(decode(s[k].data)) IN
               IF k = 1
               THEN image_info[p] = [width |-> img.width, height |-> img.height]
               ELSE /\ IsHeader(s[k - 1])
                    /\ deserialize(s[k - 1].text).Image =
                          [width |-> img.width, height |-> img.height])
    /\ [][\A p \in {"A", "B"} : HandleBinary(p) =>
            LET m == Head(down[p])
                img == ImageOf(decode(m.data))
            IN  /\ decode_ok(m.data)
                /\ cpc'[p] = "running"
                /\ cache'[p] = img
                /\ \/ clip'[p] = img
                   \/ clip'[p] = clip[p] /\ clipFails' = clipFails + 1]_vars

\* the spec's case: the receiver holds the 2x2 image of 16 bytes that the
\* sender's detector observed
C13_Witness ==
    /\ cache["A"] = ImgFour
    /\ clip["B"] = ImgFour
    /\ cache["B"] = ImgFour
    /\ applied["B"] = ImgFour
    /\ down["B"] = <<>>

(* ================= a session that receives image transfers ============= *)
\* a message of an image transfer arrives from the network; one more than
\* MaxInject, for two headers and a payload
net_deliver_image(p, m) ==
    /\ cpc[p] = "running"
    /\ injected < MaxInject + 1
    /\ injected' = injected + 1
    /\ down' = [down EXCEPT ![p] = Append(@, m)]
    /\ UNCHANGED <<cvars, copies, ends, clipFails, up, rvars>>

\* headers of two sizes and a payload of the second size
ImageMessages ==
    { MsgText(serialize_clipboard_message(PayloadImage(1, 1)), NetOrg),
      MsgText(serialize_clipboard_message(PayloadImage(2, 1)), NetOrg),
      MsgBinary(encode(PixTwo), NetOrg) }

NextHeaders ==
    \/ start_connect("A", TRUE)
    \/ \E c \in UserContents : user_copy("A", c)
    \/ check_clipboard_read("A")
    \/ check_clipboard_send("A")
    \/ forward_ws_net("A")
    \/ \E m \in ImageMessages : net_deliver_image("A", m)
    \/ handle_message("A")

SpecHeaders == Init /\ [][NextHeaders]_vars

\* the step of p is handle_message taking an image header
HandleHeader(p) == HandleStep(p) /\ IsHeader(Head(down[p]))

\* C14: a header changes neither clipboard nor cache nor the outbound
\* channel, it only replaces the stored dimensions, so nothing of an earlier
\* header is left; and a payload is built with the stored dimensions, those
\* of the last header.
C14_HeaderDiscarded ==
    /\ [][\A p \in Peers : HandleHeader(p) =>
            /\ clip'[p] = clip[p]
            /\ cache'[p] = cache[p]
            /\ applied'[p] = applied[p]
            /\ outq'[p] = outq[p]
            /\ image_info'[p] = deserialize(Head(down[p]).text).Image]_vars
    /\ [][\A p \in Peers : (HandleBinary(p) /\ ~HandlePanics(p, Head(down[p]))) =>
            /\ cache'[p] = ImageContent(image_info[p].width, image_info[p].height,
                                        decode(Head(down[p]).data))
            /\ clip'[p] \in {clip[p], cache'[p]}]_vars

\* header 1x1, header 2x1, payload: the 2x1 image was applied
C14_Witness ==
    /\ injected = 3
    /\ down["A"] = <<>>
    /\ image_info["A"] = [width |-> 2, height |-> 1]
    /\ clip["A"] = ImgTwo
    /\ cache["A"] = ImgTwo

(* ================= sessions that end and are started again ============= *)
\* an attempt of start() where one more session than MaxSessions is started,
\* for a session after a session
start_reconnect(p, ok) ==
    /\ Connect(p, ok, MaxSessions + 1)
    /\ UNCHANGED <<budgets, wires, rvars>>

NextSessions ==
    \/ \E ok \in BOOLEAN : start_reconnect("A", ok)
    \/ start_retry_sleep("A")
    \/ run_teardown("A")
    \/ check_clipboard_read("A")
    \/ check_clipboard_send("A")
    \/ check_clipboard_orphan("A")
    \/ forward_ws_net("A")
    \/ \E m \in ImageMessages : net_deliver_image("A", m)
    \/ handle_message("A")

SpecSessions == Init /\ [][NextSessions]_vars

\* the state of p's session is the one run() starts with
Fresh(p) ==
    /\ cache[p] = TextContent("")
    /\ image_info[p] = [width |-> 0, height |-> 0]
    /\ ~pendingHdr[p]
    /\ stlock[p] = "free"
    /\ outq[p] = <<>>
    /\ down[p] = <<>>

\* C15: between sessions nothing of a session is kept, and every session,
\* the first and each one after a reconnect, starts with cache = empty text,
\* no stored header, a free lock and empty channels.
C15_FreshState ==
    /\ [](\A p \in Peers : cpc[p] \in {"connecting", "retry_wait"} => Fresh(p))
    /\ [][\A p \in Peers :
            (cpc[p] = "connecting" /\ cpc'[p] = "running") => Fresh(p)']_vars

\* a header 2x1 was handled in a session; in the session after it the
\* payload was built with the dimensions 0 x 0 of a fresh state
C15_Witness ==
    /\ ended["A"] = 1
    /\ cpc["A"] = "running"
    /\ injected = 2
    /\ image_info["A"] = [width |-> 0, height |-> 0]
    /\ cache["A"] = ImageContent(0, 0, PixTwo)

(* ================== the lock around a session's state ================== *)
\* C16: a tick in progress holds the lock and nothing else does; while it
\* is in progress handle_message takes no message, and cache, stored header
\* and channel stay as the tick found them (the clipboard changes only by a
\* user's copy); so what the tick compares and overwrites is the cache it
\* read against, never one set by a remote write in between.
C16_StateExclusive ==
    /\ [](\A p \in Peers :
            cpc[p] = "running" => (det[p] = "read" <=> stlock[p] = "det"))
    /\ [][\A p \in Peers : det[p] = "read" =>
            /\ ~HandleStep(p)
            /\ det'[p] = "read" =>
                  /\ cache'[p] = cache[p]
                  /\ image_info'[p] = image_info[p]
                  /\ outq'[p] = outq[p] \/ outq'[p] = Tail(outq[p])
                  /\ clip'[p] = clip[p] \/ copies' = copies + 1]_vars

\* a remote message waits for the lock while a tick that has read changed
\* content is about to send it
C16_Witness ==
    \E p \in Peers :
        /\ det[p] = "read"
        /\ stlock[p] = "det"
        /\ down[p] # <<>>
        /\ Changed(cache[p], cur[p])

(* ============== the registry, a broadcast taken step by step =========== *)
\* the message p's broadcast is about has been enqueued for b
Sent(p, b) == Holds(Outbound(b), Head(up[p]).org)

\* broadcast_incoming, a non-close message: let peers = map.lock().unwrap()
broadcast_incoming_lock(p) ==
    /\ spc[p] = "running"
    /\ up[p] # <<>>
    /\ Head(up[p]).kind # "Close"
    /\ MapFree
    /\ IF mapPoisoned
       THEN /\ spc' = [spc EXCEPT ![p] = "panicked"]
            /\ rxAlive' = [rxAlive EXCEPT ![p] = FALSE]
       ELSE /\ spc' = [spc EXCEPT ![p] = "broadcasting"]
            /\ UNCHANGED rxAlive
    /\ UNCHANGED <<map, rq, mapPoisoned, removes, bcastLog>>
    /\ UNCHANGED <<cvars, budgets, wires>>

\* one turn of the loop: rec.unbounded_send(msg.clone()).unwrap() for a
\* recipient not served yet, in the order the HashMap happens to iterate. A
\* dropped receiver fails the send; unwrap() then panics under the lock.
broadcast_incoming_send(p) ==
    /\ spc[p] = "broadcasting"
    /\ \E b \in Recipients(p) :
         /\ ~Sent(p, b)
         /\ IF rxAlive[b]
            THEN /\ rq' = [rq EXCEPT ![b] = Append(@, Head(up[p]))]
                 /\ UNCHANGED <<spc, mapPoisoned, rxAlive>>
            ELSE /\ spc' = [spc EXCEPT ![p] = "panicked"]
                 /\ mapPoisoned' = TRUE
                 /\ rxAlive' = [rxAlive EXCEPT ![p] = FALSE]
                 /\ UNCHANGED rq
    /\ UNCHANGED <<map, removes, bcastLog>>
    /\ UNCHANGED <<cvars, budgets, wires>>

\* the loop is over: the guard peers drops, the closure returns ok(())
broadcast_incoming_unlock(p) ==
    /\ spc[p] = "broadcasting"
    /\ \A b \in Recipients(p) : Sent(p, b)
    /\ spc' = [spc EXCEPT ![p] = "running"]
    /\ up' = [up EXCEPT ![p] = Tail(@)]
    /\ bcastLog' = Append(bcastLog, [org |-> Head(up[p]).org, regs |-> map])
    /\ UNCHANGED <<map, rq, rxAlive, mapPoisoned, removes>>
    /\ UNCHANGED <<cvars, budgets, down>>

\* broadcast_incoming, a Close: nothing is locked or sent; the stream ends
broadcast_incoming_close(p) ==
    /\ up[p] # <<>>
    /\ Head(up[p]).kind = "Close"
    /\ broadcast_incoming(p)

NextRegistry ==
    \E p \in Peers :
        \/ handle_connection_accept(p)
        \/ \E m \in PeerMessages(p, seqno[p] + 1) : peer_send(p, m)
        \/ broadcast_incoming_lock(p)
        \/ broadcast_incoming_send(p)
        \/ broadcast_incoming_unlock(p)
        \/ broadcast_incoming_close(p)
        \/ receive_from_others(p)
        \/ handle_connection_select(p)
        \/ handle_connection_remove(p)
        \/ handle_connection_drop(p)

SpecRegistry == Init /\ [][NextRegistry]_vars

\* some task is inside a broadcast, holding the map's mutex
MapHeld == \E b \in Peers : spc[b] = "broadcasting"

\* C17: at most one task is inside a broadcast, and while one is the map is
\* neither inserted into nor removed from; every address in the map has a
\* connection task before its end whose receiver is alive; no send of a
\* broadcast fails: no session panics, the mutex is never poisoned.
C17_RegistryAtomic ==
    /\ [](Cardinality({b \in Peers : spc[b] = "broadcasting"}) <= 1)
    /\ [][MapHeld => map' = map]_vars
    /\ [](\A p \in map :
            rxAlive[p] /\ spc[p] \in {"running", "broadcasting", "selected"})
    /\ [](\A p \in Peers : spc[p] \in {"removed", "ended"} => p \notin map)
    /\ [](~mapPoisoned /\ \A p \in Peers : spc[p] # "panicked")
    /\ [][\A p \in Peers : (spc[p] = "broadcasting" /\ spc'[p] # "broadcasting") =>
            /\ spc'[p] = "running"
            /\ \A b \in Recipients(p) : Sent(p, b)]_vars

\* A is in the middle of a broadcast: B has the message, C not yet; in the
\* meantime C's connection has ended and waits for the lock to be removed
C17_Witness ==
    /\ spc["A"] = "broadcasting"
    /\ Sent("A", "B")
    /\ ~Sent("A", "C")
    /\ spc["C"] = "selected"
    /\ "C" \in map
    /\ rxAlive["C"]

(* ============ two peers whose users copy at about the same time ======== *)
\* A and B have established sessions; each user has just copied an image;
\* from here on no user copies and no clipboard operation fails
InitCross ==
    InitWith([p \in Peers |->
                CASE p = "A" -> ImgRed [] p = "B" -> ImgTwo [] OTHER -> EmptyContent],
             {"A", "B"}, MaxCopies, MaxClipFail)

NextCross ==
    \E p \in {"A", "B"} :
        \/ check_clipboard_read(p)
        \/ check_clipboard_send(p)
        \/ forward_ws(p)
        \/ broadcast_incoming(p)
        \/ receive_from_others(p)
        \/ handle_message(p)

SpecCross == InitCross /\ [][NextCross]_vars

\* no message is on its way anywhere, no tick is in progress, and a tick of
\* any connected peer would find its clipboard equal to its cache
Quiescent ==
    \A p \in map :
        /\ outq[p] = <<>>
        /\ up[p] = <<>>
        /\ rq[p] = <<>>
        /\ down[p] = <<>>
        /\ det[p] = "sleep"
        /\ ~Changed(cache[p], ReadClipboard(clip[p], FALSE, FALSE))

\* C18 (as claimed): once every queue is drained, every message applied and
\* no detector has anything left to send, the clipboards of all connected
\* peers hold the same content.
C18_Convergence ==
    Quiescent => \A p, q \in map : clip[p] = clip[q]

(* ================= a clipboard write that fails on receipt ============= *)
\* the next tick of p would send something
TickWouldSend(p) == Changed(cache[p], ReadClipboard(clip[p], FALSE, FALSE))

\* C19 (as claimed): when the detector has nothing to send and
\* handle_message takes a message without changing the clipboard (a header,
\* content equal to the clipboard's, or a write that fails), the detector
\* still has nothing to send afterwards.
C19_FailedWriteSilent ==
    [][\A p \in Peers :
         (HandleStep(p) /\ cpc'[p] = "running" /\ clip'[p] = clip[p] /\ ~TickWouldSend(p))
            => ~TickWouldSend(p)']_vars

====
